---------------------------- MODULE Spec2Model ----------------------------
(***************************************************************************)
(* Minimum Hamming distance: the exact all-pairs search                    *)
(* (min_hamming.py), the LSH approximation (min_hamming_LSH.py) and the    *)
(* comparison harness (comparison.py).                                     *)
(*                                                                         *)
(* A binary vector is a sequence over {0, 1}; a collection is a sequence   *)
(* of vectors.  Bit positions are 0-based as in the source, so position i  *)
(* of vector v is v[i + 1].  A Python tuple (distance, pair) is the        *)
(* sequence <<distance, pair>>; the pair is <<v1, v2>>, and Python's None  *)
(* is the constant None.  A call that can raise returns a record whose     *)
(* field err names the exception ("none" when it returns normally, and     *)
(* only then the record has a field val).                                  *)
(***************************************************************************)
EXTENDS Integers, Sequences, FiniteSets, TLC

\* ------------------------------------------------------------- bounds
\* Largest number of vectors in a collection.
MaxVectors == 3
\* Largest vector length in a collection.
MaxLength == 2
\* Largest length of an argument of calculate_hamming_distance.
MaxBits == 3
\* Largest round count (--iterations).
MaxIterations == 2
\* Largest trial count (--samples).
MaxTrials == 3

\* ------------------------------------------------------------- values
None == <<>>
NoError == "none"

Ok(v) == [err |-> NoError, val |-> v]
Raise(e) == [err |-> e]
Returned(r) == r.err = NoError

Bit == {0, 1}
BitVectors(n) == [1..n -> Bit]
\* Every vector of length at most n.
BitVectorsUpTo(n) == UNION {BitVectors(k) : k \in 0..n}

MinOf(a, b) == IF a <= b THEN a ELSE b

\* ------------------------------------------------- calculate_hamming_distance
\* sum(b1 != b2 for b1, b2 in zip(vec1, vec2)): zip stops at the shorter vector.
RECURSIVE ZipCount(_, _, _)
ZipCount(vec1, vec2, p) ==
    IF p > MinOf(Len(vec1), Len(vec2)) THEN 0
    ELSE (IF vec1[p] # vec2[p] THEN 1 ELSE 0) + ZipCount(vec1, vec2, p + 1)

\* Mutant: the length check is dropped, zip silently truncates.
calculate_hamming_distance_nocheck(vec1, vec2) == Ok(ZipCount(vec1, vec2, 1))

\* Mutant: counts the positions that agree instead of those that differ.
calculate_hamming_distance_agree(vec1, vec2) ==
    IF Len(vec1) # Len(vec2) THEN Raise("ValueError")
    ELSE Ok(Len(vec1) - ZipCount(vec1, vec2, 1))

calculate_hamming_distance(vec1, vec2) ==
    IF Len(vec1) # Len(vec2) THEN Raise("ValueError")
    ELSE Ok(ZipCount(vec1, vec2, 1))

\* ------------------------------------------------- find_min_hamming_distance
\* The loops of min_hamming.py lines 19-24, from the pair (i, j) on (1-based);
\* the first ValueError of calculate_hamming_distance ends the search.
RECURSIVE ScanAllPairs(_, _, _, _, _)
ScanAllPairs(vectors, i, j, min_distance, min_pair) ==
    IF i > Len(vectors) THEN Ok(<<min_distance, min_pair>>)
    ELSE IF j > Len(vectors)
         THEN ScanAllPairs(vectors, i + 1, i + 2, min_distance, min_pair)
    ELSE LET dist == calculate_hamming_distance(vectors[i], vectors[j])
         IN IF ~Returned(dist) THEN dist
            ELSE IF dist.val < min_distance
                 THEN ScanAllPairs(vectors, i, j + 1, dist.val,
                                   <<vectors[i], vectors[j]>>)
            ELSE ScanAllPairs(vectors, i, j + 1, min_distance, min_pair)

\* Mutant: the initial minimum is len(vectors[0]) instead of len(vectors[0]) + 1.
find_min_hamming_distance_offbyone(vectors) ==
    IF Len(vectors) = 0 THEN Raise("IndexError")
    ELSE ScanAllPairs(vectors, 1, 2, Len(vectors[1]), None)

find_min_hamming_distance(vectors) ==
    IF Len(vectors) = 0 THEN Raise("IndexError")
    ELSE ScanAllPairs(vectors, 1, 2, Len(vectors[1]) + 1, None)

\* ------------------------------------------ find_min_hamming_distance_in_group
\* all(vectors[i][idx] == vectors[j][idx] for idx in indices), from the p-th
\* drawn position on: "True", "False" (all stops at the first mismatch), or
\* "IndexError" when a subscript is past the end of either vector.
RECURSIVE AllMatch(_, _, _, _)
AllMatch(v, w, indices, p) ==
    IF p > Len(indices) THEN "True"
    ELSE IF indices[p] >= Len(v) \/ indices[p] >= Len(w) THEN "IndexError"
    ELSE IF v[indices[p] + 1] # w[indices[p] + 1] THEN "False"
    ELSE AllMatch(v, w, indices, p + 1)

\* The loops of min_hamming_LSH.py lines 109-115, from the pair (i, j) on.
RECURSIVE ScanGroup(_, _, _, _, _, _)
ScanGroup(vectors, indices, i, j, min_distance, min_pair) ==
    IF i > Len(vectors) THEN Ok(<<min_distance, min_pair>>)
    ELSE IF j > Len(vectors)
         THEN ScanGroup(vectors, indices, i + 1, i + 2, min_distance, min_pair)
    ELSE LET match == AllMatch(vectors[i], vectors[j], indices, 1)
             dist == calculate_hamming_distance(vectors[i], vectors[j])
         IN IF match = "IndexError" THEN Raise("IndexError")
            ELSE IF match = "False"
                 THEN ScanGroup(vectors, indices, i, j + 1, min_distance, min_pair)
            ELSE IF ~Returned(dist) THEN dist
            ELSE IF dist.val < min_distance
                 THEN ScanGroup(vectors, indices, i, j + 1, dist.val,
                                <<vectors[i], vectors[j]>>)
            ELSE ScanGroup(vectors, indices, i, j + 1, min_distance, min_pair)

\* Mutant: the filter is skipped, every pair of the group is measured.
find_min_hamming_distance_in_group_nofilter(vectors, indices) ==
    IF Len(vectors) = 0 THEN Raise("IndexError")
    ELSE ScanGroup(vectors, <<>>, 1, 2, Len(vectors[1]) + 1, None)

\* Mutant: the initial minimum is 0, so no pair is ever recorded.
find_min_hamming_distance_in_group_zero(vectors, indices) ==
    IF Len(vectors) = 0 THEN Raise("IndexError")
    ELSE ScanGroup(vectors, indices, 1, 2, 0, None)

find_min_hamming_distance_in_group(vectors, indices) ==
    IF Len(vectors) = 0 THEN Raise("IndexError")
    ELSE ScanGroup(vectors, indices, 1, 2, Len(vectors[1]) + 1, None)

\* ------------------------------------------------------ numpy.random.choice
\* The outcomes of np.random.choice(population, size, replace=False): every
\* sequence of size distinct positions in 0..population-1.
Samples(population, size) ==
    {s \in [1..size -> 0..(population - 1)] :
        \A p, q \in 1..size : p # q => s[p] # s[q]}

\* np.random.choice raises ValueError for a negative size or a sample larger
\* than the population.
ChoiceRaises(population, size) == size < 0 \/ size > population

\* --------------------------------------------- classify_vectors_by_random_bits
\* key = tuple(vec[i] for i in indices); IndexError when vec is too short.
KeyRaises(vec, indices) == \E p \in 1..Len(indices) : indices[p] >= Len(vec)
KeyOf(vec, indices) == [p \in 1..Len(indices) |-> vec[indices[p] + 1]]

\* Position in the insertion-ordered dict of the entry with this key, 0 if none.
KeyIndex(groups, key) ==
    IF \E g \in 1..Len(groups) : groups[g].key = key
    THEN CHOOSE g \in 1..Len(groups) : groups[g].key = key
    ELSE 0

\* The loop of lines 85-87 from the p-th vector on; groups is the defaultdict,
\* a sequence of [key, members] in insertion order.
RECURSIVE FillGroups(_, _, _, _)
FillGroups(vectors, indices, p, groups) ==
    IF p > Len(vectors) THEN Ok([g \in 1..Len(groups) |-> groups[g].members])
    ELSE IF KeyRaises(vectors[p], indices) THEN Raise("IndexError")
    ELSE LET key == KeyOf(vectors[p], indices)
             at == KeyIndex(groups, key)
         IN IF at = 0
            THEN FillGroups(vectors, indices, p + 1,
                     Append(groups, [key |-> key, members |-> <<vectors[p]>>]))
            ELSE FillGroups(vectors, indices, p + 1,
                     [groups EXCEPT ![at].members = Append(@, vectors[p])])

\* Mutant: a vector whose key is already present replaces the group.
GroupByIndices_lastonly(vectors, indices) ==
    LET r == FillGroups(vectors, indices, 1, <<>>)
    IN IF Returned(r)
       THEN Ok([g \in 1..Len(r.val) |-> <<r.val[g][Len(r.val[g])]>>])
       ELSE r

\* Lines 83-89 for one outcome, indices, of the draw of line 82.
GroupByIndices(vectors, indices) == FillGroups(vectors, indices, 1, <<>>)

\* ------------------------------------------------------ min() over tuples
\* Python's < on two lists of ints, from position p on: the first position
\* that differs decides, else the shorter list is the smaller.
RECURSIVE ListLT(_, _, _)
ListLT(x, y, p) ==
    IF p > Len(x) \/ p > Len(y) THEN Len(x) < Len(y)
    ELSE IF x[p] # y[p] THEN x[p] < y[p]
    ELSE ListLT(x, y, p + 1)

\* Python's a < b on two (distance, pair) tuples: "True", "False", or
\* "TypeError" when equal distances leave None to be ordered against a pair.
TupleLT(a, b) ==
    IF a[1] # b[1] THEN (IF a[1] < b[1] THEN "True" ELSE "False")
    ELSE IF a[2] = b[2] THEN "False"
    ELSE IF a[2] = None \/ b[2] = None THEN "TypeError"
    ELSE IF a[2][1] # b[2][1]
         THEN (IF ListLT(a[2][1], b[2][1], 1) THEN "True" ELSE "False")
    ELSE (IF ListLT(a[2][2], b[2][2], 1) THEN "True" ELSE "False")

\* The loop of min(): best is replaced by each later item that is < best.
RECURSIVE MinFrom(_, _, _)
MinFrom(items, p, best) ==
    IF p > Len(items) THEN Ok(best)
    ELSE LET lt == TupleLT(items[p], best)
         IN IF lt = "TypeError" THEN Raise("TypeError")
            ELSE MinFrom(items, p + 1, IF lt = "True" THEN items[p] ELSE best)

\* Mutant of PyMin: the last tuple, whatever its distance.
PyMin_last(items) ==
    IF Len(items) = 0 THEN Raise("ValueError") ELSE Ok(items[Len(items)])

\* min(items) for a list of (distance, pair) tuples; ValueError when empty.
PyMin(items) ==
    IF Len(items) = 0 THEN Raise("ValueError") ELSE MinFrom(items, 2, items[1])

\* ------------------------------------ find_min_hamming_distance_across_groups
\* The loop of lines 145-146 from the g-th group on: the list min_values, or
\* the first error a group's search raises.
RECURSIVE MinValues(_, _, _, _)
MinValues(groups, sample_bits, g, min_values) ==
    IF g > Len(groups) THEN Ok(min_values)
    ELSE LET r == find_min_hamming_distance_in_group(groups[g], sample_bits)
         IN IF ~Returned(r) THEN r
            ELSE MinValues(groups, sample_bits, g + 1, Append(min_values, r.val))

\* Lines 139-149 for one outcome, sample_bits, of the draw of line 142.
AcrossGroupsWith(groups, sample_bits) ==
    LET mv == MinValues(groups, sample_bits, 1, <<>>)
    IN IF ~Returned(mv) THEN mv ELSE PyMin(mv.val)

\* ------------------------------------------------- find_min_hamming_using_LSH
RECURSIVE Pow(_, _)
Pow(b, e) == IF e = 0 THEN 1 ELSE b * Pow(b, e - 1)

\* round(math.log2(p / q)) for integers p, q > 0: the k >= 0 with
\* 2^(k - 1/2) <= p/q < 2^(k + 1/2), that is 4^k * q^2 <= 2 * p^2 < 4^(k+1) * q^2
\* (no tie is possible, and every ratio met in the model is at least 1).
RECURSIVE RoundLog2From(_, _, _)
RoundLog2From(p, q, k) ==
    IF 2 * p * p < Pow(4, k + 1) * q * q THEN k ELSE RoundLog2From(p, q, k + 1)

RoundLog2(p, q) == RoundLog2From(p, q, 0)

\* floor(8 * log2(m)), m >= 1: the largest e with 2^e <= m^8.  Eighths are
\* fine enough for line 154: the width agrees with Python's for 2 <= m <= 14.
RECURSIVE FloorLog2From(_, _)
FloorLog2From(x, e) == IF Pow(2, e + 1) > x THEN e ELSE FloorLog2From(x, e + 1)

Log2Times8(m) == FloorLog2From(Pow(m, 8), 0)

\* Line 154: round(log2(m / log2(m))), m >= 2, with log2(m) in eighths.
LshBits(m) == RoundLog2(8 * m, Log2Times8(m))

\* Line 157: round(log2(n)), n >= 1.
FilterBits(n) == RoundLog2(n, 1)

\* ------------------------------------------------------------------ state
VARIABLES
    pc,               \* where the run is: the next step, "done" or "error"
    call,             \* the entry point that was called
    error,            \* the exception that ended the run, NoError if none
    vec1, vec2,       \* arguments of calculate_hamming_distance
    distance,         \* what calculate_hamming_distance returned or raised
    vectors,          \* the collection (or the group) under search
    iterations,       \* the round count
    num_of_lsh_bits,  \* line 154, or classify's num_of_bits argument
    log_n,            \* line 157
    indices,          \* the grouping sample drawn at line 82
    vectors_groups,   \* line 162
    sample_bits,      \* find_min_hamming_distance_in_group's indices argument
    results,          \* line 159/164
    result,           \* what the called search returned
    args,             \* main's parsed arguments
    output,           \* what main printed
    num_of_cmp_iterations, \* compare_result's trial count
    trial_outcomes,   \* what get_min_hamming_results(*args) can return
    correct_counter,  \* comparison.py line 64/70
    trial_results,    \* comparison.py line 65/71
    report            \* the two percentages of lines 73-82, as fractions

lshVars == <<num_of_lsh_bits, log_n, indices, vectors_groups, results>>
metricVars == <<vec1, vec2, distance>>
mainVars == <<args, output>>
harnessVars == <<num_of_cmp_iterations, trial_outcomes, correct_counter,
                 trial_results, report>>
vars == <<pc, call, error, vectors, iterations, sample_bits, result,
          lshVars, metricVars, mainVars, harnessVars>>

NotCalled == [err |-> "not called"]

\* The parts of the state a run has not touched yet.
IdleLsh ==
    /\ num_of_lsh_bits = 0 /\ log_n = 0 /\ indices = <<>>
    /\ vectors_groups = <<>> /\ results = <<>>
IdleMetric == vec1 = <<>> /\ vec2 = <<>> /\ distance = NotCalled
IdleMain == args = <<>> /\ output = <<>>
IdleHarness ==
    /\ num_of_cmp_iterations = 0 /\ trial_outcomes = {} /\ correct_counter = 0
    /\ trial_results = <<>> /\ report = <<>>

\* Collections of m vectors, all of length n.
Collections(m, n) == [1..m -> BitVectors(n)]
EqualCollections ==
    UNION {Collections(m, n) : m \in 0..MaxVectors, n \in 0..MaxLength}
\* Collections whose vectors may differ in length.
RaggedCollections ==
    UNION {[1..m -> BitVectorsUpTo(MaxLength)] : m \in 0..MaxVectors}

\* Every sequence of distinct positions below n, of any width.
AnySample(n) == UNION {Samples(n, k) : k \in 0..n}

\* ------------------------------------------------------------------- steps
Fail(e) == pc' = "error" /\ error' = e

\* calculate_hamming_distance(vec1, vec2), lines 56-59.
Distance ==
    /\ pc = "distance"
    /\ distance' = calculate_hamming_distance(vec1, vec2)
    /\ pc' = "done"
    /\ UNCHANGED <<call, error, vectors, iterations, sample_bits, result,
                   lshVars, vec1, vec2, mainVars, harnessVars>>

\* find_min_hamming_distance(vectors), min_hamming.py lines 16-26.
Exact ==
    /\ pc = "exact"
    /\ LET r == find_min_hamming_distance(vectors)
       IN /\ result' = r
          /\ IF Returned(r) THEN pc' = "done" /\ error' = error
             ELSE Fail(r.err)
    /\ UNCHANGED <<call, vectors, iterations, sample_bits,
                   lshVars, metricVars, mainVars, harnessVars>>

\* find_min_hamming_distance_in_group(vectors, sample_bits), lines 106-117.
InGroup ==
    /\ pc = "group"
    /\ LET r == find_min_hamming_distance_in_group(vectors, sample_bits)
       IN /\ result' = r
          /\ IF Returned(r) THEN pc' = "done" /\ error' = error
             ELSE Fail(r.err)
    /\ UNCHANGED <<call, vectors, iterations, sample_bits,
                   lshVars, metricVars, mainVars, harnessVars>>

\* find_min_hamming_using_LSH, lines 154-159: the two widths.  math.log2
\* raises ValueError at 0, and m / log2(m) ZeroDivisionError at m = 1.
LshEnter ==
    /\ pc = "lsh"
    /\ IF Len(vectors) = 0 THEN
            Fail("ValueError") /\ UNCHANGED <<num_of_lsh_bits, log_n>>
       ELSE IF Len(vectors) = 1 THEN
            Fail("ZeroDivisionError") /\ UNCHANGED <<num_of_lsh_bits, log_n>>
       ELSE IF Len(vectors[1]) = 0 THEN
            /\ Fail("ValueError")
            /\ num_of_lsh_bits' = LshBits(Len(vectors))
            /\ log_n' = log_n
       ELSE /\ num_of_lsh_bits' = LshBits(Len(vectors))
            /\ log_n' = FilterBits(Len(vectors[1]))
            /\ pc' = IF iterations > 0 THEN "classify" ELSE "aggregate"
            /\ error' = error
    /\ results' = <<>>
    /\ UNCHANGED <<call, vectors, iterations, sample_bits, result, indices,
                   vectors_groups, metricVars, mainVars, harnessVars>>

\* classify_vectors_by_random_bits(vectors, num_of_lsh_bits), lines 78-89.
Classify ==
    /\ pc = "classify"
    /\ IF Len(vectors) = 0 THEN
            /\ vectors_groups' = <<>> /\ indices' = indices /\ error' = error
            /\ pc' = IF call = "classify" THEN "done" ELSE "filter"
       ELSE IF ChoiceRaises(Len(vectors[1]), num_of_lsh_bits) THEN
            Fail("ValueError") /\ UNCHANGED <<indices, vectors_groups>>
       ELSE \E drawn \in Samples(Len(vectors[1]), num_of_lsh_bits) :
            LET r == GroupByIndices(vectors, drawn)
            IN /\ indices' = drawn
               /\ IF Returned(r)
                  THEN /\ vectors_groups' = r.val /\ error' = error
                       /\ pc' = IF call = "classify" THEN "done" ELSE "filter"
                  ELSE Fail(r.err) /\ vectors_groups' = vectors_groups
    /\ UNCHANGED <<call, vectors, iterations, sample_bits, result,
                   num_of_lsh_bits, log_n, results,
                   metricVars, mainVars, harnessVars>>

\* find_min_hamming_distance_across_groups(vectors_groups, len(vectors[0]),
\* log_n), lines 139-149, and results.append(iter_result), line 164.  The
\* round's grouping sample and groups are read by no later step (line 162
\* rebinds them), so the round ends with both dropped.
AcrossGroups ==
    /\ pc = "filter"
    /\ IF ChoiceRaises(Len(vectors[1]), log_n) THEN
            Fail("ValueError") /\ results' = results
       ELSE \E drawn \in Samples(Len(vectors[1]), log_n) :
            LET r == AcrossGroupsWith(vectors_groups, drawn)
            IN IF Returned(r)
               THEN /\ results' = Append(results, r.val) /\ error' = error
                    /\ pc' = IF Len(results) + 1 < iterations
                             THEN "classify" ELSE "aggregate"
               ELSE Fail(r.err) /\ results' = results
    /\ indices' = <<>>
    /\ vectors_groups' = <<>>
    /\ UNCHANGED <<call, vectors, iterations, sample_bits, result,
                   num_of_lsh_bits, log_n, metricVars, mainVars, harnessVars>>

\* return min(results), line 166.
Aggregate ==
    /\ pc = "aggregate"
    /\ LET r == PyMin(results)
       IN /\ result' = r
          /\ IF Returned(r)
             THEN /\ pc' = IF call = "main" THEN "print" ELSE "done"
                  /\ error' = error
             ELSE Fail(r.err)
    /\ UNCHANGED <<call, vectors, iterations, sample_bits,
                   lshVars, metricVars, mainVars, harnessVars>>

\* ------------------------------------------------ main of min_hamming_LSH.py
\* Line 194: args.vectors random vectors of args.length bits.
Generate ==
    /\ pc = "generate"
    /\ vectors' \in Collections(args[1], args[2])
    /\ iterations' = args[3]
    /\ pc' = "lsh"
    /\ UNCHANGED <<call, error, sample_bits, result,
                   lshVars, metricVars, mainVars, harnessVars>>

\* Lines 199-201: the distance is printed, then result[1][0] and result[1][1];
\* subscripting None raises TypeError after the first line is out.
PrintResult ==
    /\ pc = "print"
    /\ IF result.val[2] = None
       THEN /\ output' = <<result.val[1]>>
            /\ Fail("TypeError")
       ELSE /\ output' = <<result.val[1], result.val[2][1], result.val[2][2]>>
            /\ pc' = "exit0"
            /\ error' = error
    /\ UNCHANGED <<call, vectors, iterations, sample_bits, result,
                   lshVars, metricVars, args, harnessVars>>

\* ----------------------------------------------------------- comparison.py
\* One LSH round, lines 162-163, for every outcome of its two draws.
RoundOutcomes(vs, k, j) ==
    IF ChoiceRaises(Len(vs[1]), k) \/ ChoiceRaises(Len(vs[1]), j)
    THEN {Raise("ValueError")}
    ELSE {LET g == GroupByIndices(vs, drawn[1])
          IN IF Returned(g) THEN AcrossGroupsWith(g.val, drawn[2]) ELSE g :
             drawn \in Samples(Len(vs[1]), k) \X Samples(Len(vs[1]), j)}

\* The first error among the rounds, if any; else min(results).
RECURSIVE FirstError(_, _)
FirstError(rounds, p) ==
    IF p > Len(rounds) THEN PyMin([q \in 1..Len(rounds) |-> rounds[q].val])
    ELSE IF ~Returned(rounds[p]) THEN rounds[p]
    ELSE FirstError(rounds, p + 1)

\* find_min_hamming_using_LSH(vs, lsh_iter), lines 152-166, for every outcome
\* of the draws of its rounds.
LshOutcomes(vs, lsh_iter) ==
    IF Len(vs) = 0 THEN {Raise("ValueError")}
    ELSE IF Len(vs) = 1 THEN {Raise("ZeroDivisionError")}
    ELSE IF Len(vs[1]) = 0 THEN {Raise("ValueError")}
    ELSE IF lsh_iter <= 0 THEN {Raise("ValueError")}
    ELSE {FirstError(rounds, 1) :
             rounds \in [1..lsh_iter ->
                 RoundOutcomes(vs, LshBits(Len(vs)), FilterBits(Len(vs[1])))]}

\* get_min_hamming_results, lines 28-36, on the collection vs: (exact[0],
\* approx[0]) for every outcome of the LSH draws, or the error raised.
ResultsOn(vs, lsh_iter) ==
    LET exact == find_min_hamming_distance(vs)
    IN IF ~Returned(exact) THEN {exact}
       ELSE {IF Returned(approx) THEN Ok(<<exact.val[1], approx.val[1]>>)
             ELSE approx : approx \in LshOutcomes(vs, lsh_iter)}

get_min_hamming_results(num_of_vectors, vector_length, lsh_iter) ==
    UNION {ResultsOn(vs, lsh_iter) :
              vs \in Collections(num_of_vectors, vector_length)}

\* The parameter triples the harness is run with.
HarnessParams == (1..MaxVectors) \X (1..MaxLength) \X (1..MaxIterations)

\* Fractions <<numerator, denominator>>, denominator > 0.
FracAdd(x, y) == <<x[1] * y[2] + y[1] * x[2], x[2] * y[2]>>

\* Mutant: no trial is filtered out.
ValidResults_nofilter(rs) == rs

\* [(exact, approx) for exact, approx in results if exact != 0], line 76.
ValidResults(rs) == SelectSeq(rs, LAMBDA t : t[1] # 0)

\* sum((approx - exact) / exact for exact, approx in valid_results), line 79.
RECURSIVE SumRelative(_, _)
SumRelative(valid, p) ==
    IF p > Len(valid) THEN <<0, 1>>
    ELSE FracAdd(<<valid[p][2] - valid[p][1], valid[p][1]>>,
                 SumRelative(valid, p + 1))

\* Lines 73-82: the two percentages, and the list the average is taken over.
Percentages(counter, n, rs) ==
    LET valid == ValidResults(rs)
        total == SumRelative(valid, 1)
    IN [hits |-> <<counter * 100, n>>,
        error |-> IF Len(valid) > 0
                  THEN <<total[1] * 100, total[2] * Len(valid)>>
                  ELSE <<0, 1>>,
        valid |-> valid]

\* correct_counter += exact == approximate, line 70.
CountHit(counter, exact, approximate) ==
    counter + (IF exact = approximate THEN 1 ELSE 0)

\* One pass of the loop of lines 67-71.
Trial ==
    /\ pc = "trial"
    /\ Len(trial_results) < num_of_cmp_iterations
    /\ \E r \in trial_outcomes :
         IF Returned(r)
         THEN /\ correct_counter' = CountHit(correct_counter, r.val[1], r.val[2])
              /\ trial_results' = Append(trial_results, r.val)
              /\ UNCHANGED <<pc, error>>
         ELSE /\ Fail(r.err)
              /\ UNCHANGED <<correct_counter, trial_results>>
    /\ UNCHANGED <<call, vectors, iterations, sample_bits, result, lshVars,
                   metricVars, mainVars, num_of_cmp_iterations, trial_outcomes,
                   report>>

\* Lines 73-85 once the loop is over; line 73 divides by the trial count.
Report ==
    /\ pc = "trial"
    /\ Len(trial_results) = num_of_cmp_iterations
    /\ IF num_of_cmp_iterations = 0
       THEN Fail("ZeroDivisionError") /\ report' = report
       ELSE /\ report' = Percentages(correct_counter, num_of_cmp_iterations,
                                     trial_results)
            /\ pc' = "exit0"
            /\ error' = error
    /\ UNCHANGED <<call, vectors, iterations, sample_bits, result, lshVars,
                   metricVars, mainVars, num_of_cmp_iterations, trial_outcomes,
                   correct_counter, trial_results>>

\* ---------------------------------------------------------- specifications
Fresh == error = NoError /\ result = NotCalled /\ iterations = 0

\* calculate_hamming_distance on any two vectors.
InitMetric ==
    /\ pc = "distance" /\ call = "distance"
    /\ vec1 \in BitVectorsUpTo(MaxBits)
    /\ vec2 \in BitVectorsUpTo(MaxBits)
    /\ distance = NotCalled
    /\ vectors = <<>> /\ sample_bits = <<>>
    /\ Fresh /\ IdleLsh /\ IdleMain /\ IdleHarness

\* A call of one of the search functions on a collection drawn from cs.
InitCall(cs) ==
    /\ vectors \in cs
    /\ error = NoError /\ result = NotCalled
    /\ \/ /\ call = "exact" /\ pc = "exact"
          /\ iterations = 0 /\ sample_bits = <<>> /\ IdleLsh
       \/ /\ call = "lsh" /\ pc = "lsh"
          /\ iterations \in 0..MaxIterations /\ sample_bits = <<>> /\ IdleLsh
       \/ /\ call = "classify" /\ pc = "classify"
          /\ iterations = 0 /\ sample_bits = <<>>
          /\ num_of_lsh_bits \in 0..MaxLength
          /\ log_n = 0 /\ indices = <<>> /\ vectors_groups = <<>>
          /\ results = <<>>
       \/ /\ call = "group" /\ pc = "group"
          /\ Len(vectors) > 0
          /\ iterations = 0 /\ IdleLsh
          /\ sample_bits \in AnySample(Len(vectors[1]))
    /\ IdleMetric /\ IdleMain /\ IdleHarness

Init == InitCall(EqualCollections)
InitRagged == InitCall(RaggedCollections)

\* main of min_hamming_LSH.py with --vectors, --length, --iterations parsed.
InitMain ==
    /\ pc = "generate" /\ call = "main"
    /\ args \in (0..MaxVectors) \X (0..MaxLength) \X (0..MaxIterations)
    /\ output = <<>>
    /\ vectors = <<>> /\ sample_bits = <<>>
    /\ Fresh /\ IdleLsh /\ IdleMetric /\ IdleHarness

\* compare_result(num_of_cmp_iterations, *args).
InitHarness ==
    /\ pc = "trial" /\ call = "compare"
    /\ args \in HarnessParams
    /\ trial_outcomes = get_min_hamming_results(args[1], args[2], args[3])
    /\ num_of_cmp_iterations \in 0..MaxTrials
    /\ correct_counter = 0 /\ trial_results = <<>> /\ report = <<>>
    /\ output = <<>>
    /\ vectors = <<>> /\ sample_bits = <<>>
    /\ Fresh /\ IdleLsh /\ IdleMetric

NextLsh == LshEnter \/ Classify \/ AcrossGroups \/ Aggregate
Next == Exact \/ InGroup \/ NextLsh
NextMetric == Distance
NextMain == Generate \/ NextLsh \/ PrintResult
NextHarness == Trial \/ Report

Spec == Init /\ [][Next]_vars
SpecRagged == InitRagged /\ [][Next]_vars
SpecMetric == InitMetric /\ [][NextMetric]_vars
SpecMain == InitMain /\ [][NextMain]_vars
SpecHarness == InitHarness /\ [][NextHarness]_vars

\* ------------------------------------------------------------------ claims
\* Every vector of a collection has the same length.
SameLength(vs) == \A p, q \in 1..Len(vs) : Len(vs[p]) = Len(vs[q])
\* The number of positions at which two vectors of one length differ.
DiffCount(a, b) == Cardinality({p \in 1..Len(a) : a[p] # b[p]})
\* The pairs of distinct positions of a collection.
PairsOf(vs) == {ij \in (1..Len(vs)) \X (1..Len(vs)) : ij[1] < ij[2]}
\* The least distance over a non-empty set of position pairs.
LeastOver(vs, pairs) ==
    CHOOSE d \in {DiffCount(vs[ij[1]], vs[ij[2]]) : ij \in pairs} :
        \A ij \in pairs : d <= DiffCount(vs[ij[1]], vs[ij[2]])
\* Two vectors hold equal bits at every position of a sample.
AgreeOn(v, w, sample) ==
    \A p \in 1..Len(sample) : v[sample[p] + 1] = w[sample[p] + 1]
Occurrences(v, seq) == Cardinality({p \in 1..Len(seq) : seq[p] = v})
Members(seq) == {seq[p] : p \in 1..Len(seq)}
LshReturned == call = "lsh" /\ pc = "done"

\* C1: whenever find_min_hamming_using_LSH returns on a collection of
\* equal-length vectors, for any round count and any draws, its distance is at
\* least the distance find_min_hamming_distance returns on that collection.
C1_LshNeverBelowExact ==
    LshReturned =>
        LET exact == find_min_hamming_distance(vectors)
        IN Returned(exact) /\ result.val[1] >= exact.val[1]

\* C1 witness: a two-round run that returned the sentinel while the exact
\* search finds a pair.
C1_Witness ==
    /\ LshReturned /\ iterations = 2 /\ Len(vectors) = 3
    /\ result.val = <<Len(vectors[1]) + 1, None>>
    /\ find_min_hamming_distance(vectors).val[1] = 1

\* C2: on a non-empty collection find_min_hamming_distance returns a pair of
\* vectors at two distinct positions whose Hamming distance is the distance
\* returned, and that distance is the all-pairs minimum; only a collection
\* with a single vector has no pair, and then the result is (n + 1, None).
C2_ExactIsAllPairsMinimum ==
    (call = "exact" /\ pc \in {"done", "error"} /\ Len(vectors) >= 1) =>
        /\ pc = "done"
        /\ IF Len(vectors) = 1
           THEN result.val = <<Len(vectors[1]) + 1, None>>
           ELSE /\ result.val[1] = LeastOver(vectors, PairsOf(vectors))
                /\ \E ij \in PairsOf(vectors) :
                     /\ result.val[2] = <<vectors[ij[1]], vectors[ij[2]]>>
                     /\ DiffCount(vectors[ij[1]], vectors[ij[2]]) = result.val[1]

\* C2 witness: three vectors whose closest pair is not the first pair scanned.
C2_Witness ==
    /\ call = "exact" /\ pc = "done" /\ Len(vectors) = 3
    /\ DiffCount(vectors[1], vectors[2]) > result.val[1]
    /\ DiffCount(vectors[1], vectors[3]) > result.val[1]
    /\ result.val[2] = <<vectors[2], vectors[3]>>

\* C3: each round appended to results leaves min(results) the same or
\* smaller: the minimum over the first r + 1 round results is at most the
\* minimum over the first r.
C3_RunningMinimumNeverIncreases ==
    [][(Len(results) >= 1 /\ Len(results') = Len(results) + 1) =>
          /\ SubSeq(results', 1, Len(results)) = results
          /\ Returned(PyMin(results)) /\ Returned(PyMin(results'))
          /\ PyMin(results').val[1] <= PyMin(results).val[1]]_vars

\* C3 witness: a second round that found a pair after a first round that
\* found none, and the returned minimum is the second round's.
C3_Witness ==
    /\ LshReturned /\ Len(results) = 2
    /\ results[1][2] = None /\ results[2][2] # None
    /\ result.val = results[2]

\* C4: with --vectors >= 2, --length >= 1 and --iterations >= 1 main ends in
\* an error only if calculate_hamming_distance raised on vectors of different
\* lengths; every other run, the sentinel result included, exits zero.
C4_MainEndsInErrorOnlyOnLengthMismatch ==
    (call = "main" /\ pc = "error"
        /\ args[1] >= 2 /\ args[2] >= 1 /\ args[3] >= 1) =>
        (error = "ValueError" /\ ~SameLength(vectors))

\* C5: a search called on a collection whose vectors differ in length never
\* returns: it ends in an error.
C5_RaggedCollectionNeverReturns ==
    (call \in {"exact", "lsh"} /\ ~SameLength(vectors)) => pc # "done"

\* C6: the groups classify_vectors_by_random_bits returns partition the
\* collection by the drawn positions: no group is empty, every vector occurs
\* in exactly one group and as often as in the collection, no other vector
\* occurs, and two vectors share a group exactly when they agree on every
\* drawn position.
C6_GroupsPartitionByKey ==
    (pc = "filter" \/ (call = "classify" /\ pc = "done")) =>
        /\ Len(indices) = (IF Len(vectors) = 0 THEN 0 ELSE num_of_lsh_bits)
        /\ \A g \in 1..Len(vectors_groups) : Len(vectors_groups[g]) > 0
        /\ \A g \in 1..Len(vectors_groups) :
              Members(vectors_groups[g]) \subseteq Members(vectors)
        /\ \A v \in Members(vectors) :
              \E g \in 1..Len(vectors_groups) :
                 /\ Occurrences(v, vectors_groups[g]) = Occurrences(v, vectors)
                 /\ \A h \in 1..Len(vectors_groups) :
                       h # g => v \notin Members(vectors_groups[h])
        /\ \A v, w \in Members(vectors) :
              (\E g \in 1..Len(vectors_groups) :
                  {v, w} \subseteq Members(vectors_groups[g]))
              <=> AgreeOn(v, w, indices)

\* C6 witness: the second round of an LSH run split three vectors in two groups.
C6_Witness ==
    /\ call = "lsh" /\ pc = "filter" /\ Len(results) = 1
    /\ Len(vectors) = 3 /\ Len(vectors_groups) = 2

\* C7: calculate_hamming_distance gives the same count for (a, b) and (b, a),
\* and the count is 0 exactly when a = b.
C7_DistanceSymmetricZeroIffEqual ==
    (call = "distance" /\ pc = "done" /\ Len(vec1) = Len(vec2)) =>
        /\ Returned(distance)
        /\ distance = calculate_hamming_distance(vec2, vec1)
        /\ (distance.val = 0 <=> vec1 = vec2)

\* C7 witness: two different vectors of one length were measured.
C7_Witness ==
    /\ call = "distance" /\ pc = "done"
    /\ Len(vec1) = 3 /\ Len(vec2) = 3 /\ vec1 # vec2
    /\ distance = Ok(2)

\* C8: calculate_hamming_distance raises ValueError when the lengths differ,
\* in either argument order, and returns no count; on equal lengths it
\* returns the number of differing positions.
C8_DistanceRaisesOnLengthMismatch ==
    (call = "distance" /\ pc = "done") =>
        IF Len(vec1) # Len(vec2)
        THEN /\ distance = Raise("ValueError")
             /\ calculate_hamming_distance(vec2, vec1) = Raise("ValueError")
        ELSE distance = Ok(DiffCount(vec1, vec2))

\* C8 witness: the call was made on lengths 2 and 3 and raised.
C8_Witness ==
    /\ call = "distance" /\ pc = "done"
    /\ Len(vec1) = 2 /\ Len(vec2) = 3
    /\ distance.err = "ValueError"

\* C9: when compare_result reports after t >= 1 trials, the hit count is the
\* number of trials with exact = approximate and lies in 0..t, the hit rate
\* is hit count / t * 100 and lies in [0, 100], the average relative error
\* is >= 0, and the average ranges over exactly the trials whose exact
\* distance is not 0.
C9_ReportWithinRange ==
    (call = "compare" /\ pc = "exit0") =>
        LET t == num_of_cmp_iterations
            hits == {p \in 1..t : trial_results[p][1] = trial_results[p][2]}
            nonzero == {p \in 1..t : trial_results[p][1] # 0}
        IN /\ t >= 1 /\ Len(trial_results) = t
           /\ correct_counter = Cardinality(hits)
           /\ correct_counter \in 0..t
           /\ report.hits = <<correct_counter * 100, t>>
           /\ 0 <= report.hits[1] /\ report.hits[1] <= 100 * report.hits[2]
           /\ report.error[2] > 0 /\ report.error[1] >= 0
           /\ Len(report.valid) = Cardinality(nonzero)
           /\ \A p \in 1..Len(report.valid) : report.valid[p][1] # 0

\* C9 witness: a report over three trials, one with exact distance 0 (a hit
\* left out of the average) and one where the approximation was too large.
C9_Witness ==
    /\ call = "compare" /\ pc = "exit0" /\ num_of_cmp_iterations = 3
    /\ trial_results[1] = <<0, 0>>
    /\ trial_results[2][1] = 1 /\ trial_results[2][2] > 1
    /\ Len(report.valid) = 2 /\ report.error[1] > 0
    /\ correct_counter >= 1

\* C10: find_min_hamming_distance_in_group on a non-empty group returns the
\* least Hamming distance over the pairs of the group that agree on every
\* filter position, with a pair that agrees on them and is at that distance;
\* when no pair agrees on every filter position it returns (n + 1, None).
C10_InGroupIsMinimumOverFilteredPairs ==
    (call = "group" /\ pc \in {"done", "error"}) =>
        LET agreeing == {ij \in PairsOf(vectors) :
                AgreeOn(vectors[ij[1]], vectors[ij[2]], sample_bits)}
        IN /\ pc = "done"
           /\ IF agreeing = {}
              THEN result.val = <<Len(vectors[1]) + 1, None>>
              ELSE /\ result.val[1] = LeastOver(vectors, agreeing)
                   /\ \E ij \in agreeing :
                        /\ result.val[2] = <<vectors[ij[1]], vectors[ij[2]]>>
                        /\ DiffCount(vectors[ij[1]], vectors[ij[2]])
                               = result.val[1]

\* C10 witness: a group of three where the filter left out the first pair
\* and a later pair was returned.
C10_Witness ==
    /\ call = "group" /\ pc = "done" /\ Len(vectors) = 3
    /\ Len(sample_bits) >= 1
    /\ ~AgreeOn(vectors[1], vectors[2], sample_bits)
    /\ result.val[2] = <<vectors[2], vectors[3]>>
    /\ result.val[1] = 1

=============================================================================
